---- MODULE Spec2Model ----
(***************************************************************************)
(* A model of the trading control loop of fract                            *)
(* (src/fract/model/base.py: TraderCore, BaseTrader), with the deprecated  *)
(* position sizer of src/fract/deprecated/base.py.                         *)
(*                                                                         *)
(* Money is counted in whole units of the account currency, ratios of the  *)
(* configuration in percent (max_spread in per mille), so that every       *)
(* quotient of the code is an exact integer quotient here.  A Python       *)
(* exception is the name of its class in a field exc ("none": the call     *)
(* returned).                                                              *)
(***************************************************************************)
EXTENDS Integers, Sequences, FiniteSets, TLC

VARIABLES
    cf,            \* config_dict and the constructor's flags (dry_run, log_dir_path)
    broker,        \* the brokerage account the client talks to
    pos_dict,      \* TraderCore.pos_dict: instrument -> {side, units}
    balance,       \* TraderCore.balance
    margin_avail,  \* TraderCore.margin_avail
    ptime_dict,    \* TraderCore.__ptime_dict: instrument -> {time, units}
    txn_list,      \* TraderCore.__txn_list
    last_txn_id,   \* TraderCore.__last_txn_id (0: None)
    inst_dict,     \* TraderCore.inst_dict: instrument -> {tradeable, maximumOrderUnits}
    rate_dict,     \* TraderCore.__rate_dict: instrument -> {bid, ask}
    unit_costs,    \* TraderCore.unit_costs
    cache_dfs,     \* BaseTrader.__cache_dfs: instrument -> the cached rows, in order
    pc,            \* where the control is: in invoke's loop, or in a direct call
    idx,           \* invoke: the index of the instrument of the for loop
    sent,          \* the requests the broker has received, in order
    order_log,     \* the records written to order.json.txt
    exc,           \* the exception that left invoke ("none": none)
    now,           \* datetime.now(), in seconds
    ret            \* what the last call did and returned

vars == <<cf, broker, pos_dict, balance, margin_avail, ptime_dict, txn_list,
          last_txn_id, inst_dict, rate_dict, unit_costs, cache_dfs, pc, idx,
          sent, order_log, exc, now, ret>>

snapshot == <<pos_dict, balance, margin_avail, ptime_dict, txn_list,
              last_txn_id, inst_dict, rate_dict, unit_costs>>

----------------------------------------------------------------------------
\* Bounds of the model.

MaxBalance == 5
MaxMargin == 5
MaxUnitCost == 2
MaxUnits == 2
MaxOrderUnits == 3
MaxTxns == 2
MaxSpreadTicks == 2
BaseBid == 1000
MaxCacheLength == 3
MaxRows == 2
MaxFed == 4
MaxNow == 3
MaxList == 3
MaxBrokerTxns == 3
MaxMean == 3
MaxStd == 2
MaxSigmaBand == 2
MaxStop == 4
MaxRate == 2
MaxTradable == 2

\* The configured instruments, in configured order (TraderCore.instruments).
instruments == <<"EUR_USD", "USD_JPY">>

Instruments == {instruments[n] : n \in 1..Len(instruments)}

Sides == {"long", "short"}

\* sig['sig_act'] as determine_sig_state reads it; "None" is Python's None.
SigActs == {"long", "short", "closing", "None"}

\* Percentages a margin_nav_ratio entry is drawn from.
RatioPcts == {10, 50, 90}

\* Positions pos_dict can hold: the broker reports short units negative.
PosValues ==
    {[side |-> "long", units |-> u] : u \in 1..MaxUnits}
        \cup {[side |-> "short", units |-> -u] : u \in 1..MaxUnits}

\* Realized profit and loss of a transaction, by its sign.
PLs == {-1, 0, 1}

RECURSIVE SeqsUpTo(_, _)
SeqsUpTo(S, n) ==
    IF n = 0 THEN {<<>>}
    ELSE LET shorter == SeqsUpTo(S, n - 1)
         IN  shorter \cup {Append(s, x) : s \in {t \in shorter : Len(t) = n - 1}, x \in S}

Abs(x) == IF x < 0 THEN -x ELSE x

Min(a, b) == IF a <= b THEN a ELSE b

Max(a, b) == IF a >= b THEN a ELSE b

\* np.ceil(a / b) for b > 0 (\div rounds down).
CeilDiv(a, b) == -((-a) \div b)

\* dict.get: whether the key is there.
Has(d, k) == k \in DOMAIN d

\* [t for t in self.__txn_list if t.instrument == instrument], the pl of each.
RECURSIVE InstTxns(_, _)
InstTxns(txns, instrument) ==
    IF txns = <<>> THEN <<>>
    ELSE LET rest == InstTxns(Tail(txns), instrument)
         IN  IF Head(txns).instrument = instrument
             THEN <<Head(txns).pl>> \o rest
             ELSE rest

----------------------------------------------------------------------------
\* The position sizer.

\* BettingSystem's multiplier after a loss, and its cap (spec 4.2).
BetMultiplier == 2

BetCap == 8

\* BettingSystem.calculate_size_by_pl (spec 4.2): the sizes folded over the
\* instrument's transactions in order: from init_size, a loss scales the size
\* up to the cap, a win resets it to unit_size.
RECURSIVE BetFold(_, _, _)
BetFold(size, unit_size, pls) ==
    IF pls = <<>> THEN size
    ELSE BetFold(
            IF Head(pls) < 0 THEN Min(size * BetMultiplier, Max(BetCap, size))
            ELSE IF Head(pls) > 0 THEN unit_size
            ELSE size,
            unit_size, Tail(pls))

calculate_size_by_pl(unit_size, init_size, inst_txns) ==
    BetFold(init_size, unit_size, inst_txns)

\* avail_size of _design_order_units:
\* max(np.ceil((margin_avail - balance * preserve) / unit_cost), 0).
avail_size(bal, margin, uc, ratio) ==
    Max(CeilDiv(margin * 100 - bal * ratio.preserve, uc * 100), 0)

\* sizes[k] of _design_order_units: np.ceil(balance * v / unit_cost).
ratio_size(bal, uc, v) == CeilDiv(bal * v, uc * 100)

\* bet_size of _design_order_units.
bet_size(bal, uc, ratio, inst_txns) ==
    calculate_size_by_pl(ratio_size(bal, uc, ratio.unit),
                         ratio_size(bal, uc, ratio.init), inst_txns)

SideSign(side) == IF side = "long" THEN 1 ELSE -1

\* A sizer with the operands of the baseline sizes' quotient exchanged.
order_units_swapped(bal, margin, uc, max_size, ratio, inst_txns, side) ==
    LET inv(v) == IF bal * v = 0 THEN 0 ELSE CeilDiv(uc * 100, bal * v)
        bet == calculate_size_by_pl(inv(ratio.unit), inv(ratio.init), inst_txns)
    IN  Min(Min(bet, avail_size(bal, margin, uc, ratio)), max_size) * SideSign(side)

\* A sizer that leaves the instrument's maximum out of the minimum.
order_units_nomax(bal, margin, uc, max_size, ratio, inst_txns, side) ==
    Min(bet_size(bal, uc, ratio, inst_txns), avail_size(bal, margin, uc, ratio))
        * SideSign(side)

\* TraderCore._design_order_units on explicit inputs:
\* int(min(bet_size, avail_size, max_size) * {'long': 1, 'short': -1}[side]).
order_units(bal, margin, uc, max_size, ratio, inst_txns, side) ==
    Min(Min(bet_size(bal, uc, ratio, inst_txns),
            avail_size(bal, margin, uc, ratio)), max_size) * SideSign(side)

\* TraderCore._design_order_units on the trader's snapshot.
_design_order_units(instrument, side) ==
    order_units(balance, margin_avail, unit_costs[instrument],
                inst_dict[instrument].maximumOrderUnits, cf.margin_nav_ratio,
                InstTxns(txn_list, instrument), side)

\* FractTrader._calc_units after its unit value bp: mg = ratio * (avail + used),
\* mg_per_unit = uc; floor(ticket / mg_per_unit) capped by maxTradeUnits when
\* the ticket fits the margin left above the preserve, else 0.
_calc_units(avail, used, uc, maxTradeUnits, ticket, preserve) ==
    LET total == avail + used
    IN  IF ticket * total < avail * 100 - preserve * total
        THEN LET units == (ticket * total) \div (uc * 100)
             IN  IF units <= maxTradeUnits THEN units ELSE maxTradeUnits
        ELSE 0

----------------------------------------------------------------------------
\* The decision table.

\* Python's None where a position is expected (self.pos_dict.get(i)).
None == [side |-> "None", units |-> 0]

PosGet(pd, i) == IF Has(pd, i) THEN pd[i] ELSE None

\* A margin check that lets the margin equal to the reserve pass.
_is_margin_lack_strict(instrument) ==
    /\ ~Has(pos_dict, instrument)
    /\ margin_avail * 100 < balance * cf.margin_nav_ratio.preserve

\* BaseTrader._is_margin_lack.
_is_margin_lack(instrument) ==
    /\ ~Has(pos_dict, instrument)
    /\ margin_avail * 100 <= balance * cf.margin_nav_ratio.preserve

\* A spread check against the sum of ask and bid instead of their mean.
_is_over_spread_sum(df_rate) ==
    (df_rate.ask - df_rate.bid) * 1000 >= cf.max_spread * (df_rate.ask + df_rate.bid)

\* BaseTrader._is_over_spread on the last row of df_rate:
\* (ask - bid) / (ask + bid) * 2 >= max_spread, max_spread in per mille.
_is_over_spread(df_rate) ==
    (df_rate.ask - df_rate.bid) * 2 * 1000 >= cf.max_spread * (df_rate.ask + df_rate.bid)

\* The result of determine_sig_state: the exception it raised or its dict.
SigState(e, act, state, pct) == [exc |-> e, act |-> act, state |-> state, pos_pct |-> pct]

\* BaseTrader.determine_sig_state for instrument i, the last rate df_rate and
\* the signal sig = [exc, sig_act] that detect_signal raised or returned.
determine_sig_state(i, df_rate, sig) ==
    LET pos == PosGet(pos_dict, i)
        held == pos # None
        pos_pct == IF held THEN (Abs(pos.units) * unit_costs[i] * 100) \div balance ELSE 0
    IN  IF held /\ ~Has(unit_costs, i) THEN SigState("KeyError", "None", "", 0)
        ELSE IF held /\ balance = 0 THEN SigState("ZeroDivisionError", "None", "", 0)
        ELSE IF sig.exc # "none" THEN SigState(sig.exc, "None", "", 0)
        ELSE IF ~Has(inst_dict, i) THEN SigState("KeyError", "None", "", 0)
        ELSE IF ~inst_dict[i].tradeable THEN SigState("none", "None", "TRADING HALTED", pos_pct)
        ELSE IF sig.sig_act = "closing" THEN SigState("none", "closing", "CLOSING", pos_pct)
        ELSE IF balance = 0 THEN SigState("none", "None", "NO FUND", pos_pct)
        ELSE IF _is_margin_lack(i) THEN SigState("none", "None", "LACK OF FUNDS", pos_pct)
        ELSE IF _is_over_spread(df_rate) THEN SigState("none", "None", "OVER-SPREAD", pos_pct)
        ELSE IF sig.sig_act = "long"
             THEN IF held /\ pos.side = "long" THEN SigState("none", "None", "% LONG", pos_pct)
                  ELSE IF held /\ pos.side = "short"
                       THEN SigState("none", "long", "SHORT -> LONG", pos_pct)
                  ELSE SigState("none", "long", "-> LONG", pos_pct)
        ELSE IF sig.sig_act = "short"
             THEN IF held /\ pos.side = "short" THEN SigState("none", "None", "% SHORT", pos_pct)
                  ELSE IF held /\ pos.side = "long"
                       THEN SigState("none", "short", "LONG -> SHORT", pos_pct)
                  ELSE SigState("none", "short", "-> SHORT", pos_pct)
        ELSE IF held /\ pos.side = "long" THEN SigState("none", "None", "% LONG", pos_pct)
        ELSE IF held /\ pos.side = "short" THEN SigState("none", "None", "% SHORT", pos_pct)
        ELSE SigState("none", "None", "-", pos_pct)

----------------------------------------------------------------------------
\* The order executor.

\* The f_args of _place_order (lines 102-108), built BEFORE the try of line
\* 109.  The last item of the dict display unpacks, with **, the set display
\* { ('ALL' if ... else 'NONE') if closing else dict() }: closing, a set of one
\* string, which ** refuses (TypeError: 'set' object is not a mapping); not
\* closing, a set holding a dict, which cannot be built (TypeError: unhashable
\* type: 'dict').
f_args(closing, instrument) ==
    LET element == IF closing
                   THEN (IF Has(pos_dict, instrument) THEN "ALL" ELSE "NONE")
                   ELSE "dict()"
    IN  IF element = "dict()" THEN [exc |-> "TypeError", why |-> "unhashable type: 'dict'"]
        ELSE [exc |-> "TypeError", why |-> "'set' object is not a mapping"]

\* What a call of the executor did: the exception that left it, the requests
\* the broker received, the records written to the order log.
Done(e, reqs, logs) == [exc |-> e, reqs |-> reqs, logs |-> logs]

Request(func, instrument, units) == [func |-> func, instrument |-> instrument, units |-> units]

\* TraderCore._place_order(closing, instrument=...) or (order={...units...});
\* fails: the broker call raises.
_place_order(closing, instrument, units, fails) ==
    IF f_args(closing, instrument).exc # "none"
    THEN Done(f_args(closing, instrument).exc, <<>>, <<>>)
    ELSE IF cf.dry_run THEN Done("none", <<>>, <<>>)
    ELSE IF fails THEN Done("none", <<>>, IF cf.order_log THEN <<"error">> ELSE <<>>)
    ELSE Done("none",
              <<Request(IF closing THEN "position.close" ELSE "order.create",
                        instrument, units)>>,
              IF cf.order_log THEN <<"body">> ELSE <<>>)

\* The broker after the requests reqs: a close empties the position and books
\* a transaction of realized profit or loss pl, a market order adds its units.
RECURSIVE BrokerApply(_, _, _)
BrokerApply(b, reqs, pl) ==
    IF reqs = <<>> THEN b
    ELSE LET r == Head(reqs)
             i == r.instrument
             p == b.pos[i]
             after ==
                 IF r.func = "position.close"
                 THEN IF p.long = 0 /\ p.short = 0 THEN b
                      ELSE [b EXCEPT !.pos[i] = [long |-> 0, short |-> 0],
                                     !.txns = Append(@, [instrument |-> i, pl |-> pl])]
                 ELSE IF r.units > 0
                      THEN [b EXCEPT !.pos[i].long = Min(@ + r.units, MaxUnits)]
                      ELSE IF r.units < 0
                           THEN [b EXCEPT !.pos[i].short = -Min(r.units - @, MaxUnits)]
                           ELSE b
         IN  BrokerApply(after, Tail(reqs), pl)

\* A refresh that asks for the full list every time.
_refresh_txn_list_all(b, tl, last, fails) ==
    LET request == [func |-> "transaction.list", id |-> 0]
    IN  IF fails
        THEN [exc |-> "APIError", txn_list |-> tl, last_txn_id |-> last,
              request |-> request, t_new |-> <<>>]
        ELSE [exc |-> "none", txn_list |-> tl \o b.txns,
              last_txn_id |-> Len(b.txns) + 1, request |-> request, t_new |-> b.txns]

\* TraderCore._refresh_txn_list against broker b, whose transaction 1 opened
\* the account and whose transaction k + 1 is b.txns[k]: transaction.since
\* the last id when there is one (0: None), else transaction.list; the
\* transactions of the response are appended, its lastTransactionID kept.
_refresh_txn_list(b, tl, last, fails) ==
    LET request == IF last # 0 THEN [func |-> "transaction.since", id |-> last]
                   ELSE [func |-> "transaction.list", id |-> 0]
        t_new == SubSeq(b.txns, Max(last, 1), Len(b.txns))
    IN  IF fails
        THEN [exc |-> "APIError", txn_list |-> tl, last_txn_id |-> last,
              request |-> request, t_new |-> <<>>]
        ELSE [exc |-> "none", txn_list |-> tl \o t_new,
              last_txn_id |-> Len(b.txns) + 1, request |-> request, t_new |-> t_new]

\* An executor that closes on a closing or directional act without looking
\* for a position.
design_and_place_order_unheld(instrument, act, inp) ==
    LET c == IF act # "None" THEN _place_order(TRUE, instrument, 0, inp.close)
             ELSE Done("none", <<>>, <<>>)
    IN  [exc |-> c.exc, closes |-> act # "None", opens |-> FALSE,
         reqs |-> c.reqs, logs |-> c.logs, txn_list |-> txn_list,
         last_txn_id |-> last_txn_id, broker |-> BrokerApply(broker, c.reqs, inp.pl)]

\* TraderCore.design_and_place_order(instrument, act).  inp: which broker
\* calls raise (close, txn, open) and the profit or loss pl a close realizes.
design_and_place_order(instrument, act, inp) ==
    LET held == Has(pos_dict, instrument)
        closes == act # "None" /\ held
                    /\ (act = "closing" \/ act # pos_dict[instrument].side)
        c == IF closes THEN _place_order(TRUE, instrument, 0, inp.close)
             ELSE Done("none", <<>>, <<>>)
        b1 == BrokerApply(broker, c.reqs, inp.pl)
        t == IF closes /\ c.exc = "none"
             THEN _refresh_txn_list(b1, txn_list, last_txn_id, inp.txn)
             ELSE [exc |-> "none", txn_list |-> txn_list, last_txn_id |-> last_txn_id]
        opens == act \in Sides /\ c.exc = "none" /\ t.exc = "none"
        units == order_units(balance, margin_avail, unit_costs[instrument],
                             inst_dict[instrument].maximumOrderUnits,
                             cf.margin_nav_ratio,
                             InstTxns(t.txn_list, instrument), act)
        o == IF opens THEN _place_order(FALSE, instrument, units, inp.open)
             ELSE Done("none", <<>>, <<>>)
    IN  [exc |-> IF c.exc # "none" THEN c.exc ELSE IF t.exc # "none" THEN t.exc ELSE o.exc,
         closes |-> closes,
         opens |-> opens,
         reqs |-> c.reqs \o o.reqs,
         logs |-> c.logs \o o.logs,
         txn_list |-> t.txn_list,
         last_txn_id |-> t.last_txn_id,
         broker |-> BrokerApply(b1, o.reqs, inp.pl)]

----------------------------------------------------------------------------
\* Direct calls of the sizer and of the decision table, on inputs drawn from
\* bounded sets.

\* The configuration: position.margin_nav_ratio in percent,
\* position.limit_price_ratio.max_spread in per mille, the constructor's
\* dry_run, whether log_dir_path names an order log, and the feature section.
Config(preserve, unit, dry, olog, gran) ==
    [margin_nav_ratio |-> [preserve |-> preserve, unit |-> unit, init |-> 10],
     max_spread |-> 1, ttl_sec |-> 2, dry_run |-> dry, order_log |-> olog,
     granularities |-> gran, cache_length |-> 2]

NoCall == [op |-> "none", instrument |-> "", arg |-> "", exc |-> "none"]

\* The empty dict.
EmptyDict == [k \in {} |-> None]

Rates == {[bid |-> BaseBid, ask |-> BaseBid + d] : d \in 0..MaxSpreadTicks}

TxnsOf(i) == {[instrument |-> i, pl |-> p] : p \in PLs}

IdleBroker ==
    [pos |-> [i \in Instruments |-> [long |-> 0, short |-> 0]],
     balance |-> 0, margin |-> 0, txns |-> <<>>,
     tradeable |-> [i \in Instruments |-> TRUE],
     rate |-> [bid |-> BaseBid, ask |-> BaseBid]]

\* What the direct calls leave alone.
InitCalls ==
    /\ broker = IdleBroker
    /\ ptime_dict = EmptyDict
    /\ last_txn_id = 0
    /\ rate_dict = [i \in Instruments |-> [bid |-> BaseBid, ask |-> BaseBid]]
    /\ cache_dfs = [i \in Instruments |-> <<>>]
    /\ idx = 1
    /\ sent = <<>>
    /\ order_log = <<>>
    /\ exc = "none"
    /\ now = 0
    /\ ret = NoCall

InitSize ==
    /\ InitCalls
    /\ pc = "size"
    /\ cf \in {Config(p, u, FALSE, FALSE, {"TICK"}) : p \in RatioPcts, u \in RatioPcts}
    /\ balance \in 0..MaxBalance
    /\ margin_avail \in 0..MaxMargin
    /\ \E uc \in 1..MaxUnitCost : unit_costs = [i \in Instruments |-> uc]
    /\ \E m \in 1..MaxOrderUnits :
          inst_dict = [i \in Instruments |-> [tradeable |-> TRUE, maximumOrderUnits |-> m]]
    /\ txn_list \in SeqsUpTo(TxnsOf(instruments[1]), MaxTxns)
    /\ pos_dict = EmptyDict

\* _design_order_units(instrument, side) is called.
CallDesignOrderUnits ==
    /\ pc = "size"
    /\ \E side \in Sides :
          ret' = [op |-> "_design_order_units", instrument |-> instruments[1],
                  arg |-> side, exc |-> "none",
                  units |-> _design_order_units(instruments[1], side)]
    /\ pc' = "returned"
    /\ UNCHANGED <<cf, broker, snapshot, cache_dfs, idx, sent, order_log, exc, now>>

\* The deprecated _calc_units is called, with margin used and the ratios
\* ticket and preserve of its margin_ratio.
CallCalcUnits ==
    /\ pc = "size"
    /\ \E used \in 0..MaxMargin :
          ret' = [op |-> "_calc_units", instrument |-> instruments[1],
                  arg |-> "", exc |-> "none", used |-> used,
                  units |-> _calc_units(margin_avail, used, unit_costs[instruments[1]],
                                        inst_dict[instruments[1]].maximumOrderUnits,
                                        cf.margin_nav_ratio.unit,
                                        cf.margin_nav_ratio.preserve)]
    /\ pc' = "returned"
    /\ UNCHANGED <<cf, broker, snapshot, cache_dfs, idx, sent, order_log, exc, now>>

NextSize == CallDesignOrderUnits \/ CallCalcUnits

SpecSize == InitSize /\ [][NextSize]_vars

InitDecide ==
    /\ InitCalls
    /\ pc = "decide"
    /\ cf \in {Config(p, 50, d, l, {"TICK"}) : p \in RatioPcts, d \in BOOLEAN, l \in BOOLEAN}
    /\ balance \in {0, 1, MaxBalance}
    /\ margin_avail \in 0..MaxMargin
    /\ \E uc \in 1..MaxUnitCost : unit_costs = [i \in Instruments |-> uc]
    /\ \E t \in BOOLEAN :
          inst_dict = [i \in Instruments |->
                          [tradeable |-> t, maximumOrderUnits |-> MaxOrderUnits]]
    /\ txn_list = <<>>
    /\ \/ pos_dict = EmptyDict
       \/ \E p \in PosValues : pos_dict = [i \in {instruments[1]} |-> p]

\* determine_sig_state(df_rate) is called with the signal detect_signal returned.
CallDetermineSigState ==
    /\ pc = "decide"
    /\ \E i \in Instruments, r \in Rates, sa \in SigActs :
          ret' = [op |-> "determine_sig_state", instrument |-> i, arg |-> sa,
                  exc |-> determine_sig_state(i, r, [exc |-> "none", sig_act |-> sa]).exc,
                  df_rate |-> r,
                  val |-> determine_sig_state(i, r, [exc |-> "none", sig_act |-> sa])]
    /\ pc' = "returned"
    /\ UNCHANGED <<cf, broker, snapshot, cache_dfs, idx, sent, order_log, exc, now>>

\* design_and_place_order(instrument, act) is called.
CallDesignAndPlaceOrder ==
    /\ pc = "decide"
    /\ \E i \in Instruments, act \in SigActs, fc \in BOOLEAN, fo \in BOOLEAN :
          LET d == design_and_place_order(
                      i, act, [close |-> fc, txn |-> FALSE, open |-> fo, pl |-> 0])
          IN  /\ ret' = [op |-> "design_and_place_order", instrument |-> i, arg |-> act,
                         exc |-> d.exc, closes |-> d.closes, opens |-> d.opens,
                         reqs |-> d.reqs]
              /\ sent' = sent \o d.reqs
              /\ order_log' = order_log \o d.logs
              /\ txn_list' = d.txn_list
              /\ last_txn_id' = d.last_txn_id
              /\ broker' = d.broker
    /\ pc' = "returned"
    /\ UNCHANGED <<cf, pos_dict, balance, margin_avail, ptime_dict, inst_dict, rate_dict,
                   unit_costs, cache_dfs, idx, exc, now>>

\* _place_order(closing=..., ...) is called.
CallPlaceOrder ==
    /\ pc = "decide"
    /\ \E i \in Instruments, closing \in BOOLEAN, fails \in BOOLEAN :
          LET d == _place_order(closing, i, IF closing THEN 0 ELSE 1, fails)
          IN  /\ ret' = [op |-> "_place_order", instrument |-> i,
                         arg |-> IF closing THEN "closing" ELSE "order",
                         exc |-> d.exc, fails |-> fails, reqs |-> d.reqs]
              /\ sent' = sent \o d.reqs
              /\ order_log' = order_log \o d.logs
              /\ broker' = BrokerApply(broker, d.reqs, 0)
    /\ pc' = "returned"
    /\ UNCHANGED <<cf, snapshot, cache_dfs, idx, exc, now>>

\* _is_margin_lack(instrument) is called.
CallIsMarginLack ==
    /\ pc = "decide"
    /\ \E i \in Instruments :
          ret' = [op |-> "_is_margin_lack", instrument |-> i, arg |-> "",
                  exc |-> "none", val |-> _is_margin_lack(i)]
    /\ pc' = "returned"
    /\ UNCHANGED <<cf, broker, snapshot, cache_dfs, idx, sent, order_log, exc, now>>

NextDecide ==
    CallDetermineSigState \/ CallDesignAndPlaceOrder \/ CallPlaceOrder \/ CallIsMarginLack

SpecDecide == InitDecide /\ [][NextDecide]_vars

----------------------------------------------------------------------------
\* The control loop: BaseTrader.invoke.

\* The positions the account reports for one instrument: the units of its
\* long and of its short side (tradeIDs are there where the units are not 0).
BrokerPositions ==
    {[long |-> 0, short |-> 0]}
        \cup {[long |-> u, short |-> 0] : u \in 1..MaxUnits}
        \cup {[long |-> 0, short |-> -u] : u \in 1..MaxUnits}

\* The first entry of [{'side': s, 'units': ...} for s in sides if d[s].tradeIDs].
FirstSide(p) ==
    IF p.long # 0 THEN [side |-> "long", units |-> p.long]
    ELSE [side |-> "short", units |-> p.short]

\* pos_dict as _refresh_account_dicts builds it (lines 77-84): an entry for
\* every position of the account with trades on a side.
AccountPosDict(b) ==
    [i \in {j \in Instruments : b.pos[j].long # 0 \/ b.pos[j].short # 0}
        |-> FirstSide(b.pos[i])]

\* Lines 88-91 for one entry d of pos_dict: {s: d[s]['units'] for s in sides}
\* looks the sides up in d, whose keys are 'side' and 'units'.
PtimeUnits(d) ==
    IF \A s \in Sides : s \in DOMAIN d
    THEN [exc |-> "none", units |-> [s \in Sides |-> d[s].units]]
    ELSE [exc |-> "KeyError", units |-> None]

\* TraderCore._refresh_account_dicts against broker b: what the fields are
\* when it returns or raises.
_refresh_account_dicts(b, fails) ==
    IF fails
    THEN [exc |-> "APIError", balance |-> balance, margin_avail |-> margin_avail,
          pos_dict |-> pos_dict, ptime_dict |-> ptime_dict]
    ELSE LET pd == AccountPosDict(b)
             kept == [i \in DOMAIN ptime_dict \cap DOMAIN pd |-> ptime_dict[i]]
             bad == {i \in DOMAIN pd : PtimeUnits(pd[i]).exc # "none"}
             stamped ==
                 [i \in DOMAIN pd |->
                     IF ~Has(ptime_dict, i) \/ ptime_dict[i].units # PtimeUnits(pd[i]).units
                     THEN [time |-> now, units |-> PtimeUnits(pd[i]).units]
                     ELSE ptime_dict[i]]
         IN  [exc |-> IF bad # {} THEN "KeyError" ELSE "none",
              balance |-> b.balance, margin_avail |-> b.margin,
              pos_dict |-> pd,
              ptime_dict |-> IF bad # {} THEN kept ELSE stamped]

\* TraderCore._refresh_inst_dict.
_refresh_inst_dict(b) ==
    [i \in Instruments |->
        [tradeable |-> b.tradeable, maximumOrderUnits |-> MaxOrderUnits]]

\* TraderCore._refresh_rate_dict.
_refresh_rate_dict(b) == [i \in Instruments |-> b.rate]

\* TraderCore._refresh_unit_costs: the unit value times the margin rate, for
\* the configured instruments of inst_dict.
_refresh_unit_costs(b, insts) == [i \in DOMAIN insts \cap Instruments |-> b.unit_cost]

\* TraderCore.refresh_oanda_dicts against broker b; fail names the broker
\* call that raises ("none": none does).
refresh_oanda_dicts(b, fail) ==
    LET a == _refresh_account_dicts(b, fail = "account")
        t == IF a.exc = "none"
             THEN _refresh_txn_list(b, txn_list, last_txn_id, fail = "txn")
             ELSE [exc |-> a.exc, txn_list |-> txn_list, last_txn_id |-> last_txn_id]
        i_ok == t.exc = "none" /\ fail # "inst"
        r_ok == i_ok /\ fail # "rate"
        insts == IF i_ok THEN _refresh_inst_dict(b) ELSE inst_dict
    IN  [exc |-> IF t.exc # "none" THEN t.exc
                 ELSE IF r_ok THEN "none" ELSE "APIError",
         balance |-> a.balance, margin_avail |-> a.margin_avail,
         pos_dict |-> a.pos_dict, ptime_dict |-> a.ptime_dict,
         txn_list |-> t.txn_list, last_txn_id |-> t.last_txn_id,
         inst_dict |-> insts,
         rate_dict |-> IF r_ok THEN _refresh_rate_dict(b) ELSE rate_dict,
         unit_costs |-> IF r_ok THEN _refresh_unit_costs(b, insts) ELSE unit_costs]

\* The elements of a list, as set(instruments) has them.
ToSet(list) == {list[k] : k \in 1..Len(list)}

\* The instruments the account can hold positions in, in the order the
\* entries of __ptime_dict are visited: the configured ones and one that is
\* not configured.
account_instruments == instruments \o <<"GBP_USD">>

\* The instruments whose position is older than ttl_sec (expire_positions).
Expired == {i \in DOMAIN ptime_dict : now - ptime_dict[i].time > cf.ttl_sec}

\* The loop of expire_positions over the instruments insts of __ptime_dict,
\* in order, after the requests reqs and the records logs: a close is placed
\* for every expired one, and an exception of _place_order ends the loop.
RECURSIVE ExpireLoop(_, _, _, _)
ExpireLoop(insts, fails, reqs, logs) ==
    IF insts = <<>> THEN Done("none", reqs, logs)
    ELSE IF Head(insts) \notin Expired THEN ExpireLoop(Tail(insts), fails, reqs, logs)
    ELSE LET d == _place_order(TRUE, Head(insts), 0, fails)
         IN  IF d.exc # "none" THEN Done(d.exc, reqs \o d.reqs, logs \o d.logs)
             ELSE ExpireLoop(Tail(insts), fails, reqs \o d.reqs, logs \o d.logs)

\* TraderCore.expire_positions(ttl_sec=cf.ttl_sec); fails: the broker's
\* close raises.
expire_positions(fails) ==
    ExpireLoop(SelectSeq(account_instruments, LAMBDA i : i \in DOMAIN ptime_dict),
               fails, <<>>, <<>>)

\* DataFrame.tail(n): the last n rows (all of them when there are fewer).
tail(df, n) == SubSeq(df, Max(Len(df) - n, 0) + 1, Len(df))

\* A cache update that keeps the oldest rows.
update_caches_head(df_c, df_rate) ==
    SubSeq(df_c \o df_rate, 1, Min(Len(df_c \o df_rate), cf.cache_length))

\* BaseTrader.update_caches: the cache of df_rate's instrument after
\* self.__cache_dfs[i].append(df_rate).tail(n=self.__n_cache).
update_caches(df_c, df_rate) == tail(df_c \o df_rate, cf.cache_length)

\* BaseTrader._fetch_history_dict, as far as it decides the signal: the
\* resolutions it hands to detect_signal, or the exception it raises.  A
\* candle resolution raises: fetch_candle_df returns the columns bid, ask and
\* instrument, and [['ask', 'bid', 'volume']] selects a column that is not
\* there (KeyError).
_fetch_history_dict(df_c, candle_fails) ==
    LET candles == cf.granularities \ {"TICK"}
        tick == IF "TICK" \in cf.granularities /\ Len(df_c) = cf.cache_length
                THEN {"TICK"} ELSE {}
    IN  IF candles # {}
        THEN [exc |-> IF candle_fails THEN "APIError" ELSE "KeyError", keys |-> {}]
        ELSE [exc |-> "none", keys |-> tick]

\* LRFeatureSieve.extract_best_feature (spec 4.1): it fails when no window
\* is complete.
extract_best_feature(history) ==
    IF history.keys = {} THEN "InsufficientHistoryError" ELSE "none"

\* Ewma.detect_signal on the history determine_sig_state fetched (or failed
\* to fetch): sig_act is the side of the band when the band does not hold
\* zero, else None; it is never 'closing'.
detect_signal(history, sig_act) ==
    IF history.exc # "none" THEN [exc |-> history.exc, sig_act |-> "None"]
    ELSE IF extract_best_feature(history) # "none"
         THEN [exc |-> extract_best_feature(history), sig_act |-> "None"]
    ELSE [exc |-> "none", sig_act |-> sig_act]

\* Direct calls of update_caches: the rows of every df_rate are stamped by
\* the clock, and ret keeps every row each instrument was fed, in order.
InitCache ==
    /\ InitCalls
    /\ pc = "cache"
    /\ \E n \in 1..MaxCacheLength, g \in {{"TICK"}, {}, {"TICK", "S5"}} :
          cf = [Config(10, 50, FALSE, FALSE, g) EXCEPT !.cache_length = n]
    /\ balance = MaxBalance
    /\ margin_avail = MaxMargin
    /\ unit_costs = [i \in Instruments |-> 1]
    /\ inst_dict = [i \in Instruments |->
                        [tradeable |-> TRUE, maximumOrderUnits |-> MaxOrderUnits]]
    /\ txn_list = <<>>
    /\ pos_dict = EmptyDict

\* The rows update_caches has been given so far, by instrument.
Fed == IF "fed" \in DOMAIN ret THEN ret.fed ELSE [i \in Instruments |-> <<>>]

\* update_caches(df_rate) is called with the next rows of an instrument.
CallUpdateCaches ==
    /\ pc = "cache"
    /\ \E i \in Instruments, rows \in 1..MaxRows :
          LET df_rate == [k \in 1..rows |-> [time |-> now + k]]
              df_c == update_caches(cache_dfs[i], df_rate)
          IN  /\ Len(Fed[i]) + rows <= MaxFed
              /\ cache_dfs' = [cache_dfs EXCEPT ![i] = df_c]
              /\ now' = now + rows
              /\ ret' = [op |-> "update_caches", instrument |-> i, arg |-> "",
                         exc |-> "none", df_rate |-> df_rate,
                         fed |-> [Fed EXCEPT ![i] = @ \o df_rate]]
    /\ UNCHANGED <<cf, broker, snapshot, pc, idx, sent, order_log, exc>>

\* determine_sig_state(df_rate) is called for an instrument: it fetches the
\* history of the instrument's cache and has detect_signal read it; sa is the
\* side of the band detect_signal finds in a full window.
CallDetermineOnCache ==
    /\ pc = "cache"
    /\ \E i \in Instruments, sa \in {"long", "short", "None"}, candle_fails \in BOOLEAN :
          LET history == _fetch_history_dict(cache_dfs[i], candle_fails)
              sig == detect_signal(history, sa)
              st == determine_sig_state(i, rate_dict[i], sig)
          IN  ret' = [op |-> "determine_sig_state", instrument |-> i,
                      arg |-> sig.sig_act, exc |-> st.exc, val |-> st,
                      history |-> history, fed |-> Fed]
    /\ UNCHANGED <<cf, broker, snapshot, cache_dfs, pc, idx, sent, order_log, exc, now>>

NextCache == CallUpdateCaches \/ CallDetermineOnCache

SpecCache == InitCache /\ [][NextCache]_vars

\* Direct calls of expire_positions on the timestamps _refresh_account_dicts
\* is written to keep (lines 85-91): one for every position of pos_dict,
\* of configured instruments or not, taken at time 0 or just now.
InitExpire ==
    /\ broker = IdleBroker
    /\ last_txn_id = 0
    /\ rate_dict = [i \in Instruments |-> [bid |-> BaseBid, ask |-> BaseBid]]
    /\ cache_dfs = [i \in Instruments |-> <<>>]
    /\ idx = 1
    /\ sent = <<>>
    /\ order_log = <<>>
    /\ exc = "none"
    /\ ret = NoCall
    /\ pc = "sweep"
    /\ cf \in {Config(10, 50, d, l, {"TICK"}) : d \in BOOLEAN, l \in BOOLEAN}
    /\ balance = MaxBalance
    /\ margin_avail = MaxMargin
    /\ unit_costs = [i \in Instruments |-> 1]
    /\ inst_dict = [i \in Instruments |->
                        [tradeable |-> TRUE, maximumOrderUnits |-> MaxOrderUnits]]
    /\ txn_list = <<>>
    /\ \E held \in SUBSET ToSet(account_instruments) : pos_dict \in [held -> PosValues]
    /\ now \in 0..MaxNow
    /\ \E times \in [DOMAIN pos_dict -> {0, now}] :
          ptime_dict = [i \in DOMAIN pos_dict |->
                           [time |-> times[i], units |-> pos_dict[i].units]]

\* expire_positions(ttl_sec=cf.ttl_sec) is called.
CallExpirePositions ==
    /\ pc = "sweep"
    /\ \E fails \in BOOLEAN :
          LET d == expire_positions(fails)
          IN  /\ ret' = [op |-> "expire_positions", instrument |-> "", arg |-> "",
                         exc |-> d.exc, expired |-> Expired, reqs |-> d.reqs]
              /\ sent' = sent \o d.reqs
              /\ order_log' = order_log \o d.logs
              /\ broker' = BrokerApply(broker, d.reqs, 0)
    /\ pc' = "returned"
    /\ UNCHANGED <<cf, snapshot, cache_dfs, idx, exc, now>>

NextExpire == CallExpirePositions

SpecExpire == InitExpire /\ [][NextExpire]_vars

\* Direct calls of _refresh_account_dicts, by a caller that goes on after an
\* exception, while the clock runs and the account moves.
InitAccount ==
    /\ InitCalls
    /\ pc = "account"
    /\ cf = Config(10, 50, FALSE, FALSE, {"TICK"})
    /\ balance = 0
    /\ margin_avail = 0
    /\ unit_costs = EmptyDict
    /\ inst_dict = EmptyDict
    /\ txn_list = <<>>
    /\ pos_dict = EmptyDict

\* _refresh_account_dicts() is called.
CallRefreshAccountDicts ==
    /\ pc = "account"
    /\ \E fails \in BOOLEAN :
          LET a == _refresh_account_dicts(broker, fails)
          IN  /\ balance' = a.balance
              /\ margin_avail' = a.margin_avail
              /\ pos_dict' = a.pos_dict
              /\ ptime_dict' = a.ptime_dict
              /\ ret' = [op |-> "_refresh_account_dicts", instrument |-> "",
                         arg |-> IF fails THEN "account" ELSE "none", exc |-> a.exc,
                         time |-> now, pos_before |-> pos_dict,
                         ptime_before |-> ptime_dict]
    /\ UNCHANGED <<cf, broker, txn_list, last_txn_id, inst_dict, rate_dict, unit_costs,
                   cache_dfs, pc, idx, sent, order_log, exc, now>>

\* A position of the account opens, changes or closes.
AccountMoves ==
    /\ pc = "account"
    /\ \E i \in Instruments, p \in BrokerPositions :
          p # broker.pos[i] /\ broker' = [broker EXCEPT !.pos[i] = p]
    /\ UNCHANGED <<cf, snapshot, cache_dfs, pc, idx, sent, order_log, exc, now, ret>>

\* A second passes.
Tick ==
    /\ pc = "account"
    /\ now < MaxNow
    /\ now' = now + 1
    /\ UNCHANGED <<cf, broker, snapshot, cache_dfs, pc, idx, sent, order_log, exc, ret>>

NextAccount == CallRefreshAccountDicts \/ AccountMoves \/ Tick

SpecAccount == InitAccount /\ [][NextAccount]_vars

\* Direct calls of _refresh_txn_list while the broker books transactions;
\* ret keeps the batches fetched so far and the last id a fetch returned.
InitTxn ==
    /\ InitCalls
    /\ pc = "txn"
    /\ cf = Config(10, 50, FALSE, FALSE, {"TICK"})
    /\ balance = 0
    /\ margin_avail = 0
    /\ unit_costs = EmptyDict
    /\ inst_dict = EmptyDict
    /\ txn_list = <<>>
    /\ pos_dict = EmptyDict

\* The batches fetched so far, concatenated, and the id the last fetch that
\* returned gave (0: none has returned).
Fetched == IF "fetched" \in DOMAIN ret THEN ret.fetched ELSE <<>>

Returned == IF "returned" \in DOMAIN ret THEN ret.returned ELSE 0

\* _refresh_txn_list() is called.
CallRefreshTxnList ==
    /\ pc = "txn"
    /\ \E fails \in BOOLEAN :
          LET t == _refresh_txn_list(broker, txn_list, last_txn_id, fails)
          IN  /\ txn_list' = t.txn_list
              /\ last_txn_id' = t.last_txn_id
              /\ ret' = [op |-> "_refresh_txn_list", instrument |-> "",
                         arg |-> IF fails THEN "txn" ELSE "none", exc |-> t.exc,
                         request |-> t.request, txn_before |-> txn_list,
                         fetched |-> Fetched \o t.t_new,
                         returned_before |-> Returned,
                         returned |-> IF fails THEN Returned ELSE Len(broker.txns) + 1]
    /\ UNCHANGED <<cf, broker, pos_dict, balance, margin_avail, ptime_dict, inst_dict,
                   rate_dict, unit_costs, cache_dfs, pc, idx, sent, order_log, exc, now>>

\* The broker books a transaction of an instrument.
BrokerBooks ==
    /\ pc = "txn"
    /\ Len(broker.txns) < MaxBrokerTxns
    /\ \E i \in Instruments :
          \E t \in TxnsOf(i) : broker' = [broker EXCEPT !.txns = Append(@, t)]
    /\ UNCHANGED <<cf, snapshot, cache_dfs, pc, idx, sent, order_log, exc, now, ret>>

NextTxn == CallRefreshTxnList \/ BrokerBooks

SpecTxn == InitTxn /\ [][NextTxn]_vars

\* fract.trade.order.close_positions.

\* The sequences that list every element of the set S once: the orders in
\* which a for loop can run over set(...).
RECURSIVE Orders(_)
Orders(S) ==
    IF S = {} THEN {<<>>}
    ELSE UNION {{<<x>> \o rest : rest \in Orders(S \ {x})} : x \in S}

\* oanda.get_positions(...)['positions'] mapped to p['instrument']: the
\* instruments with an open position in the account b.
PositionInstruments(b) == {i \in Instruments : b.pos[i].long # 0 \/ b.pos[i].short # 0}

\* A close_positions that closes the listed instruments as listed.
close_positions_listed(b, list, order) ==
    IF list # <<>> THEN [k \in 1..Len(list) |-> Request("close_position", list[k], 0)]
    ELSE [k \in 1..Len(order) |-> Request("close_position", order[k], 0)]

\* close_positions(config, instruments=list) against the account b: the
\* close_position requests it sends, when the loop over insts runs in the
\* order order.
close_positions(b, list, order) ==
    LET insts == IF list # <<>> THEN ToSet(list) ELSE PositionInstruments(b)
    IN  IF insts # {}
        THEN [k \in 1..Len(order) |-> Request("close_position", order[k], 0)]
        ELSE <<>>

\* close_positions is called with a list of instruments, on any account.
InitClose ==
    /\ InitCalls
    /\ pc = "close"
    /\ cf = Config(10, 50, FALSE, FALSE, {"TICK"})
    /\ balance = 0
    /\ margin_avail = 0
    /\ unit_costs = EmptyDict
    /\ inst_dict = EmptyDict
    /\ txn_list = <<>>
    /\ pos_dict = EmptyDict

\* The account is any account.
AccountIsAny ==
    /\ pc = "close"
    /\ \E pos \in [Instruments -> BrokerPositions] : broker' = [broker EXCEPT !.pos = pos]
    /\ pc' = "call"
    /\ UNCHANGED <<cf, snapshot, cache_dfs, idx, sent, order_log, exc, now, ret>>

CallClosePositions ==
    /\ pc = "call"
    /\ \E list \in SeqsUpTo(Instruments, MaxList) :
          \E order \in Orders(IF list # <<>> THEN ToSet(list)
                               ELSE PositionInstruments(broker)) :
             LET reqs == close_positions(broker, list, order)
             IN  /\ ret' = [op |-> "close_positions", instrument |-> "", arg |-> "",
                            exc |-> "none", list |-> list, reqs |-> reqs,
                            account |-> broker]
                 /\ sent' = sent \o reqs
                 /\ broker' = [broker EXCEPT !.pos =
                                  [i \in Instruments |->
                                      IF i \in ToSet(order) THEN [long |-> 0, short |-> 0]
                                      ELSE @[i]]]
    /\ pc' = "returned"
    /\ UNCHANGED <<cf, snapshot, cache_dfs, idx, order_log, exc, now>>

NextClose == AccountIsAny \/ CallClosePositions

SpecClose == InitClose /\ [][NextClose]_vars

\* Direct calls of Ewma.detect_signal, on the statistics of the chosen series.

\* Ewma._ewm_stats from ewm.mean().iloc[-1] and ewm.std().iloc[-1] of the
\* series: the band is [-1, 1] * std * sigma_band + ewma.  The deviation of
\* a series of one row is NaN (std_nan), and so are both ends of the band.
_ewm_stats(mean, std, std_nan, sigma_band) ==
    [ewma |-> mean, nan |-> std_nan,
     ewmbb |-> <<mean - std * sigma_band, mean + std * sigma_band>>]

\* sig_side of detect_signal (lines 22-25).
sig_side(sig_dict, contrary) ==
    IF sig_dict.ewma * (IF contrary THEN -1 ELSE 1) < 0 THEN "short" ELSE "long"

\* A signal by the sign of the estimate alone.
ewma_sig_act_crossing(sig_dict, contrary) ==
    IF sig_dict.ewma # 0 THEN sig_side(sig_dict, contrary) ELSE "None"

\* sig_act of detect_signal (lines 26-29): a comparison with NaN is false.
ewma_sig_act(sig_dict, contrary) ==
    IF ~sig_dict.nan /\ (sig_dict.ewmbb[2] < 0 \/ sig_dict.ewmbb[1] > 0)
    THEN sig_side(sig_dict, contrary) ELSE "None"

InitSignal ==
    /\ InitCalls
    /\ pc = "signal"
    /\ cf = Config(10, 50, FALSE, FALSE, {"TICK"})
    /\ balance = MaxBalance
    /\ margin_avail = MaxMargin
    /\ unit_costs = [i \in Instruments |-> 1]
    /\ inst_dict = [i \in Instruments |-> [tradeable |-> TRUE, maximumOrderUnits |-> MaxOrderUnits]]
    /\ txn_list = <<>>
    /\ pos_dict \in {EmptyDict} \cup {(instruments[1] :> p) : p \in PosValues}

\* determine_sig_state's call detect_signal(history_dict=..., pos=pos): the
\* sieve's series has the mean and deviation drawn here, the configuration
\* the sigma_band drawn here, and contrary keeps its default.
CallDetectSignal ==
    /\ pc = "signal"
    /\ \E mean \in -MaxMean..MaxMean, std \in 0..MaxStd, std_nan \in BOOLEAN,
          sigma_band \in 0..MaxSigmaBand, complete \in BOOLEAN :
          LET history == [exc |-> "none", keys |-> IF complete THEN {"TICK"} ELSE {}]
              sig_dict == _ewm_stats(mean, std, std_nan, sigma_band)
              sig == detect_signal(history, ewma_sig_act(sig_dict, FALSE))
          IN  ret' = [op |-> "detect_signal", instrument |-> instruments[1],
                      arg |-> "", exc |-> sig.exc, sig_act |-> sig.sig_act,
                      pos |-> PosGet(pos_dict, instruments[1]),
                      mean |-> mean, std |-> std, std_nan |-> std_nan,
                      sigma_band |-> sigma_band]
    /\ pc' = "returned"
    /\ UNCHANGED <<cf, broker, snapshot, cache_dfs, idx, sent, order_log, exc, now>>

NextSignal == CallDetectSignal

SpecSignal == InitSignal /\ [][NextSignal]_vars

\* Direct calls of _design_order_limits, and of the trailing stop of the
\* deprecated _place_order.

RECURSIVE Pow10(_)
Pow10(n) == IF n = 0 THEN 1 ELSE 10 * Pow10(n - 1)

\* position.limit_price_ratio.trailing_stop, in percent.
TsRatioPcts == {50, 100, 200}

\* pipLocation of an instrument.
PipLocations == {-1, 0}

\* An instrument of inst_dict, as far as _design_order_limits reads it.
InstrumentLimits ==
    [pipLocation : PipLocations,
     minimumTrailingStopDistance : 0..MaxStop,
     maximumTrailingStopDistance : 0..MaxStop]

\* ts_in_cf of _design_order_limits: int(ratio * r / 10 ** pipLocation).
ts_in_cf(rate, side, ts_ratio, ie) ==
    LET r == IF side = "long" THEN rate.ask ELSE rate.bid
    IN  (ts_ratio * r * Pow10(-ie.pipLocation)) \div 100

\* Limits with the configured distance as it is.
_design_order_limits_unclamped(rate, side, ts_ratio, ie) ==
    [trailingStopLossOnFill |->
        [distance |-> ts_in_cf(rate, side, ts_ratio, ie), timeInForce |-> "GTC"]]

\* TraderCore._design_order_limits, its trailingStopLossOnFill: the prices
\* of takeProfitOnFill and stopLossOnFill are left out.
_design_order_limits(rate, side, ts_ratio, ie) ==
    [trailingStopLossOnFill |->
        [distance |-> Min(Max(ts_in_cf(rate, side, ts_ratio, ie),
                              ie.minimumTrailingStopDistance),
                          ie.maximumTrailingStopDistance),
         timeInForce |-> "GTC"]]

\* np.int16 of a float: the value when it fits; outside the range of 16 bits
\* the conversion is undefined, and builds wrap or saturate.
int16(x) ==
    IF -32768 <= x /\ x <= 32767 THEN {x}
    ELSE {((x + 32768) % 65536) - 32768, IF x < 0 THEN -32768 ELSE 32767}

\* The deprecated FractTrader._place_order, its trailing stop from ts (one of
\* int16 of the distance in pips) and the instrument's rate.
trailing_stop(ts, rate_inst) ==
    IF ts > rate_inst.maxTrailingStop THEN rate_inst.maxTrailingStop
    ELSE IF ts < rate_inst.minTrailingStop THEN rate_inst.minTrailingStop
    ELSE ts

\* Distances in pips the deprecated _place_order computes before np.int16.
PipDistances == 0..(MaxStop + 1) \cup {32767, 32768, 65536 + MaxStop}

InitLimits ==
    /\ InitSignal
    /\ pos_dict = EmptyDict

\* _design_order_limits(instrument, side) is called, with the rate, the
\* configured ratio and the instrument drawn here.
CallDesignOrderLimits ==
    /\ pc = "signal"
    /\ \E side \in Sides, bid \in 1..MaxRate, spread \in 0..1,
          ts_ratio \in TsRatioPcts, ie \in InstrumentLimits :
          LET rate == [bid |-> bid, ask |-> bid + spread]
          IN  ret' = [op |-> "_design_order_limits", instrument |-> instruments[1],
                      arg |-> side, exc |-> "none", rate |-> rate,
                      ts_ratio |-> ts_ratio, ie |-> ie,
                      limits |-> _design_order_limits(rate, side, ts_ratio, ie)]
    /\ pc' = "returned"
    /\ UNCHANGED <<cf, broker, snapshot, cache_dfs, idx, sent, order_log, exc, now>>

\* The deprecated _place_order computes its trailing stop.
CallTrailingStop ==
    /\ pc = "signal"
    /\ \E pips \in PipDistances, lo \in 0..MaxStop, hi \in 0..MaxStop :
       \E ts \in int16(pips) :
          ret' = [op |-> "trailing_stop", instrument |-> instruments[1],
                  arg |-> "", exc |-> "none", pips |-> pips, ts |-> ts,
                  minTrailingStop |-> lo, maxTrailingStop |-> hi,
                  trailingStop |-> trailing_stop(ts, [minTrailingStop |-> lo,
                                                      maxTrailingStop |-> hi])]
    /\ pc' = "returned"
    /\ UNCHANGED <<cf, broker, snapshot, cache_dfs, idx, sent, order_log, exc, now>>

NextLimits == CallDesignOrderLimits \/ CallTrailingStop

SpecLimits == InitLimits /\ [][NextLimits]_vars

\* Direct calls of _calculate_bp_value, and of the unit value of the
\* deprecated _calc_units.  An instrument is written here as the pair its
\* name splits into at '_': <<base, quote>>.

Currencies == {"EUR", "GBP", "JPY"}

CurPairs == {p \in Currencies \X Currencies : p[1] # p[2]}

\* The instruments of the account, in the order of the broker's answer.
TradableLists ==
    {s \in SeqsUpTo(CurPairs, MaxTradable) :
        s # <<>> /\ \A m, n \in 1..Len(s) : m # n => s[m] # s[n]}

\* A fraction num / den.
Frac(num, den) == [num |-> num, den |-> den]

\* TraderCore._calculate_bp_value(instrument) for the account currency, the
\* keys insts of inst_dict and the rates: the value, or the exception of
\* [...][0] on an empty list.
_calculate_bp_value(instrument, currency, insts, rates) ==
    LET cur_pair == instrument
        ask == rates[instrument].ask
        found == SelectSeq(insts, LAMBDA i : {i[1], i[2]} = {cur_pair[2], currency})
    IN  IF cur_pair[1] = currency THEN [exc |-> "none", bpv |-> Frac(1, ask)]
        ELSE IF cur_pair[2] = currency THEN [exc |-> "none", bpv |-> Frac(ask, 1)]
        ELSE IF found = <<>> THEN [exc |-> "IndexError", bpv |-> Frac(0, 1)]
        ELSE LET inst_bpv == Head(found)
             IN  IF inst_bpv[2] = currency
                 THEN [exc |-> "none", bpv |-> Frac(ask * rates[inst_bpv].ask, 1)]
                 ELSE [exc |-> "none", bpv |-> Frac(ask, rates[inst_bpv].ask)]

\* bp of the deprecated FractTrader._calc_units (lines 88-111).
calc_units_bp(inst, account_currency, tradable_instruments, prices) ==
    LET cur_pair == inst
        ask == prices[inst].ask
        direct == <<cur_pair[2], account_currency>>
        inverse == <<account_currency, cur_pair[2]>>
    IN  IF cur_pair[1] = account_currency THEN [exc |-> "none", bpv |-> Frac(1, ask)]
        ELSE IF cur_pair[2] = account_currency THEN [exc |-> "none", bpv |-> Frac(ask, 1)]
        ELSE IF direct \in tradable_instruments
             THEN [exc |-> "none", bpv |-> Frac(ask * prices[direct].ask, 1)]
        ELSE IF inverse \in tradable_instruments
             THEN [exc |-> "none", bpv |-> Frac(ask, prices[inverse].ask)]
        ELSE [exc |-> "FractRuntimeError", bpv |-> Frac(0, 1)]

InitBpv == InitLimits

\* _refresh_unit_costs calls _calculate_bp_value for an instrument of
\* inst_dict, after _refresh_rate_dict has priced every one of them.
CallCalculateBpValue ==
    /\ pc = "signal"
    /\ \E insts \in TradableLists, currency \in Currencies, a \in 1..MaxRate :
       \E n \in 1..Len(insts) :
          LET rates == [p \in CurPairs |-> [bid |-> a, ask |-> a]]
              v == _calculate_bp_value(insts[n], currency, insts, rates)
          IN  ret' = [op |-> "_calculate_bp_value",
                      instrument |-> insts[n][1] \o "_" \o insts[n][2],
                      arg |-> "", exc |-> v.exc, bpv |-> v.bpv, cur_pair |-> insts[n],
                      currency |-> currency, tradable |-> ToSet(insts), ask |-> a]
    /\ pc' = "returned"
    /\ UNCHANGED <<cf, broker, snapshot, cache_dfs, idx, sent, order_log, exc, now>>

\* The deprecated _calc_units computes bp.
CallCalcUnitsBp ==
    /\ pc = "signal"
    /\ \E insts \in TradableLists, currency \in Currencies, a \in 1..MaxRate :
       \E n \in 1..Len(insts) :
          LET prices == [p \in CurPairs |-> [bid |-> a, ask |-> a]]
              v == calc_units_bp(insts[n], currency, ToSet(insts), prices)
          IN  ret' = [op |-> "_calc_units",
                      instrument |-> insts[n][1] \o "_" \o insts[n][2],
                      arg |-> "bp", exc |-> v.exc, bpv |-> v.bpv, cur_pair |-> insts[n],
                      currency |-> currency, tradable |-> ToSet(insts), ask |-> a]
    /\ pc' = "returned"
    /\ UNCHANGED <<cf, broker, snapshot, cache_dfs, idx, sent, order_log, exc, now>>

NextBpv == CallCalculateBpValue \/ CallCalcUnitsBp

SpecBpv == InitBpv /\ [][NextBpv]_vars

InitBroker ==
    [pos : [Instruments -> BrokerPositions],
     balance : {0, MaxBalance}, margin : {MaxMargin}, txns : {<<>>},
     tradeable : BOOLEAN, rate : {[bid |-> BaseBid, ask |-> BaseBid]},
     unit_cost : {1}]

Init ==
    /\ cf \in {Config(10, 50, d, FALSE, g) : d \in BOOLEAN,
                                            g \in {{"TICK"}, {"TICK", "S5"}}}
    /\ broker \in InitBroker
    /\ pos_dict = EmptyDict
    /\ balance = 0
    /\ margin_avail = 0
    /\ ptime_dict = EmptyDict
    /\ txn_list = <<>>
    /\ last_txn_id = 0
    /\ inst_dict = EmptyDict
    /\ rate_dict = EmptyDict
    /\ unit_costs = EmptyDict
    /\ cache_dfs = [i \in Instruments |-> <<>>]
    /\ pc = "health"
    /\ idx = 1
    /\ sent = <<>>
    /\ order_log = <<>>
    /\ exc = "none"
    /\ now = 0
    /\ ret = NoCall

\* A loop that starts its cycle whatever check_health returns.
CheckHealthIgnored ==
    /\ pc = "health"
    /\ \E ok \in BOOLEAN :
          /\ ret' = [op |-> "check_health", instrument |-> "", arg |-> "",
                     exc |-> "none", val |-> ok]
          /\ pc' = "expire"
    /\ UNCHANGED <<cf, broker, snapshot, cache_dfs, idx, sent, order_log, exc, now>>

\* while self.check_health(): the subclass's check passes or fails.
CheckHealth ==
    /\ pc = "health"
    /\ \E ok \in BOOLEAN :
          /\ ret' = [op |-> "check_health", instrument |-> "", arg |-> "",
                     exc |-> "none", val |-> ok]
          /\ pc' = IF ok THEN "expire" ELSE "stopped"
    /\ UNCHANGED <<cf, broker, snapshot, cache_dfs, idx, sent, order_log, exc, now>>

\* self.expire_positions(ttl_sec=...): an exception of it leaves invoke.
ExpirePositions ==
    /\ pc = "expire"
    /\ \E fails \in BOOLEAN :
          LET d == expire_positions(fails)
          IN  /\ sent' = sent \o d.reqs
              /\ order_log' = order_log \o d.logs
              /\ broker' = BrokerApply(broker, d.reqs, 0)
              /\ exc' = d.exc
              /\ pc' = IF d.exc # "none" THEN "crashed" ELSE "refresh"
              /\ idx' = 1
    /\ UNCHANGED <<cf, snapshot, cache_dfs, now, ret>>

\* self.refresh_oanda_dicts() for the instrument of the for loop.
RefreshOandaDicts ==
    /\ pc = "refresh"
    /\ \E fail \in {"none", "account", "txn", "inst", "rate"} :
          LET r == refresh_oanda_dicts(broker, fail)
          IN  /\ balance' = r.balance
              /\ margin_avail' = r.margin_avail
              /\ pos_dict' = r.pos_dict
              /\ ptime_dict' = r.ptime_dict
              /\ txn_list' = r.txn_list
              /\ last_txn_id' = r.last_txn_id
              /\ inst_dict' = r.inst_dict
              /\ rate_dict' = r.rate_dict
              /\ unit_costs' = r.unit_costs
              /\ exc' = r.exc
              /\ pc' = IF r.exc # "none" THEN "crashed" ELSE "decide"
              /\ ret' = [op |-> "refresh_oanda_dicts", instrument |-> instruments[idx],
                         arg |-> fail, exc |-> r.exc]
    /\ UNCHANGED <<cf, broker, cache_dfs, idx, sent, order_log, now>>

\* A loop that leaves the for loop after its first instrument.
AfterDecisionOnce(k) == [pc |-> "health", idx |-> 1]

\* for i in self.instruments: where the control goes after the decision of
\* the k-th instrument.
AfterDecision(k) ==
    IF k < Len(instruments) THEN [pc |-> "refresh", idx |-> k + 1]
    ELSE [pc |-> "health", idx |-> 1]

\* self.make_decision(instrument=i), the subclass's (spec 4.5): the latest
\* rate is fetched and cached, the signal detected and decided on, the order
\* placed; an exception of these steps ends the instrument's turn (spec 7).
MakeDecision ==
    /\ pc = "decide"
    /\ \E r \in Rates, sa \in {"long", "short", "None"}, rate_fails \in BOOLEAN,
          place_fails \in BOOLEAN :
          LET i == instruments[idx]
              df_c == IF rate_fails THEN cache_dfs[i]
                      ELSE update_caches(cache_dfs[i], <<[time |-> now]>>)
              sig == detect_signal(_fetch_history_dict(df_c, place_fails), sa)
              st == IF rate_fails THEN SigState("APIError", "None", "", 0)
                    ELSE determine_sig_state(i, r, sig)
              d == IF st.exc = "none"
                   THEN design_and_place_order(
                           i, st.act, [close |-> place_fails, txn |-> FALSE,
                                       open |-> place_fails, pl |-> 0])
                   ELSE [exc |-> st.exc, closes |-> FALSE, opens |-> FALSE,
                         reqs |-> <<>>, logs |-> <<>>, txn_list |-> txn_list,
                         last_txn_id |-> last_txn_id, broker |-> broker]
          IN  /\ cache_dfs' = [cache_dfs EXCEPT ![i] = df_c]
              /\ sent' = sent \o d.reqs
              /\ order_log' = order_log \o d.logs
              /\ txn_list' = d.txn_list
              /\ last_txn_id' = d.last_txn_id
              /\ broker' = d.broker
              /\ ret' = [op |-> "make_decision", instrument |-> i, arg |-> sig.sig_act,
                         exc |-> d.exc, held |-> Has(pos_dict, i), val |-> st,
                         closes |-> d.closes, opens |-> d.opens, reqs |-> d.reqs]
    /\ pc' = AfterDecision(idx).pc
    /\ idx' = AfterDecision(idx).idx
    /\ UNCHANGED <<cf, pos_dict, balance, margin_avail, ptime_dict, inst_dict, rate_dict,
                   unit_costs, exc, now>>

\* The account changes at the broker without the trader, while it runs and
\* after it has stopped: fills, stops, deposits, trading halts.
BrokerMoves ==
    /\ pc \in {"health", "refresh", "stopped"}
    /\ \/ \E i \in Instruments, p \in BrokerPositions :
             p # broker.pos[i] /\ broker' = [broker EXCEPT !.pos[i] = p]
       \/ \E b \in {0, MaxBalance} :
             b # broker.balance /\ broker' = [broker EXCEPT !.balance = b]
       \/ broker' = [broker EXCEPT !.tradeable = ~@]
    /\ UNCHANGED <<cf, snapshot, cache_dfs, pc, idx, sent, order_log, exc, now, ret>>

Next == CheckHealth \/ ExpirePositions \/ RefreshOandaDicts \/ MakeDecision \/ BrokerMoves

Spec == Init /\ [][Next]_vars

\* The control loop while the clock runs: a second passes between two cycles,
\* once the first has been run.
TimePasses ==
    /\ pc = "health"
    /\ ret.op \notin {"none", "sleep"}
    /\ now < MaxNow
    /\ now' = now + 1
    /\ ret' = [op |-> "sleep", instrument |-> "", arg |-> "", exc |-> "none"]
    /\ UNCHANGED <<cf, broker, snapshot, cache_dfs, pc, idx, sent, order_log, exc>>

\* A step of invoke.
InvokeStep == CheckHealth \/ ExpirePositions \/ RefreshOandaDicts \/ MakeDecision

\* The account is left alone: its positions stay open with unchanged units.
NextLive == InvokeStep \/ TimePasses

\* The trader is constructed for a funded account that can be traded.
InitLive ==
    /\ Init
    /\ ~cf.dry_run
    /\ cf.granularities = {"TICK"}
    /\ broker.balance = MaxBalance
    /\ broker.tradeable

\* invoke keeps running while it can, and time keeps passing between cycles.
SpecLive == InitLive /\ [][NextLive]_vars /\ WF_vars(InvokeStep) /\ SF_vars(TimePasses)

----------------------------------------------------------------------------
\* The claims about the decision table (SpecDecide).

Labels == {"TRADING HALTED", "CLOSING", "NO FUND", "LACK OF FUNDS", "OVER-SPREAD",
           "% LONG", "% SHORT", "SHORT -> LONG", "LONG -> SHORT", "-> LONG",
           "-> SHORT", "-"}

\* C1: the decision table is total: for every position state, signal and
\* health predicates, determine_sig_state returns exactly one action with one
\* state label, and never raises.
C1_TableTotal ==
    ret.op = "determine_sig_state"
        => /\ ret.exc = "none"
           /\ ret.val.act \in SigActs
           /\ ret.val.state \in Labels

\* The label the priority order of the claim gives, "" where the directional
\* rules decide.
PriorityLabel(i, df_rate, sig_act) ==
    IF ~inst_dict[i].tradeable THEN "TRADING HALTED"
    ELSE IF sig_act = "closing" THEN "CLOSING"
    ELSE IF balance = 0 THEN "NO FUND"
    ELSE IF _is_margin_lack(i) THEN "LACK OF FUNDS"
    ELSE IF _is_over_spread(df_rate) THEN "OVER-SPREAD"
    ELSE ""

\* C2: the decision is the first match in the order tradingHalted, closing,
\* noFunds, marginLack, overSpread, directional signal: a halted instrument
\* holds even when the signal is closing, a closing signal closes even when a
\* later health predicate holds, and every health rule holds the position.
C2_PriorityOrder ==
    ret.op = "determine_sig_state"
        => LET want == PriorityLabel(ret.instrument, ret.df_rate, ret.arg)
           IN  /\ ret.exc = "none"
               /\ want # "" => ret.val.state = want
               /\ want = "CLOSING" => ret.val.act = "closing"
               /\ want \notin {"", "CLOSING"} => ret.val.act = "None"
               /\ want = "" => ret.val.state \notin
                                  {"TRADING HALTED", "CLOSING", "NO FUND",
                                   "LACK OF FUNDS", "OVER-SPREAD"}

\* C3: when no higher-priority rule matches, a signal long on a Long position
\* holds with no broker request, on a Short position closes and then opens
\* long (one close request, then one open request), on Flat sends a single
\* open-long request; a signal short mirrors it.
C3_DirectionalRequests ==
    ret.op = "design_and_place_order"
        => \A r \in Rates, sa \in Sides :
              LET st == determine_sig_state(ret.instrument, r,
                                            [exc |-> "none", sig_act |-> sa])
                  pos == PosGet(pos_dict, ret.instrument)
                  opened(q) == /\ q.func = "order.create"
                               /\ q.instrument = ret.instrument
                               /\ q.units * SideSign(sa) >= 0
              IN  (/\ st.exc = "none"
                   /\ PriorityLabel(ret.instrument, r, sa) = ""
                   /\ st.act = ret.arg)
                      => IF pos # None /\ pos.side = sa THEN ret.reqs = <<>>
                         ELSE IF pos # None
                              THEN /\ Len(ret.reqs) = 2
                                   /\ ret.reqs[1].func = "position.close"
                                   /\ ret.reqs[1].instrument = ret.instrument
                                   /\ opened(ret.reqs[2])
                              ELSE Len(ret.reqs) = 1 /\ opened(ret.reqs[1])

\* C4: order execution never raises: whatever the request (close or open,
\* dry-run or live, the broker call failing or not), _place_order catches the
\* error and returns normally.
C4_PlaceOrderReturns == ret.op = "_place_order" => ret.exc = "none"

----------------------------------------------------------------------------
\* The claims about the position sizer (SpecSize).

SizedUnits == ret.op = "_design_order_units"

\* The margin headroom, in hundredths: available margin - balance * preserve.
Headroom100 == margin_avail * 100 - balance * cf.margin_nav_ratio.preserve

\* C7: the implied margin of the returned unit count, |units| * unit cost,
\* never exceeds available margin - balance * reserve ratio when that headroom
\* is non-negative, and the count is 0 when the headroom is not positive.
C7_MarginSafe ==
    SizedUnits
        => /\ Headroom100 >= 0
                => Abs(ret.units) * unit_costs[ret.instrument] * 100 <= Headroom100
           /\ Headroom100 <= 0 => ret.units = 0

\* The inputs of the sizer in the state of the call.
StateBet == bet_size(balance, unit_costs[ret.instrument], cf.margin_nav_ratio,
                     InstTxns(txn_list, ret.instrument))

StateAvail == avail_size(balance, margin_avail, unit_costs[ret.instrument],
                         cf.margin_nav_ratio)

StateMax == inst_dict[ret.instrument].maximumOrderUnits

\* C8: the final order size is the least of bet size, available-margin size
\* and the instrument's maximum order units, floored at zero: it never
\* exceeds the maximum in absolute value, is non-negative for long and
\* non-positive for short; the deprecated sizer stays within the maximum too.
C8_SizeIsCappedMin ==
    /\ SizedUnits
          => /\ Abs(ret.units) <= StateMax
             /\ Abs(ret.units) <= StateBet
             /\ Abs(ret.units) <= StateAvail
             /\ Abs(ret.units) \in {StateBet, StateAvail, StateMax}
             /\ ret.arg = "long" => ret.units >= 0
             /\ ret.arg = "short" => ret.units <= 0
    /\ ret.op = "_calc_units" => ret.units >= 0 /\ ret.units <= StateMax

\* C8's case: the maximum order units are what caps a short order.
C8_Witness ==
    /\ SizedUnits
    /\ ret.arg = "short"
    /\ ret.units = -StateMax
    /\ StateBet > StateMax
    /\ StateAvail > StateMax

\* The size the sizer returns at balance b, the other inputs as in the state.
SizeAt(b) ==
    Abs(order_units(b, margin_avail, unit_costs[ret.instrument], StateMax,
                    cf.margin_nav_ratio, InstTxns(txn_list, ret.instrument), ret.arg))

AvailAt(b) == avail_size(b, margin_avail, unit_costs[ret.instrument], cf.margin_nav_ratio)

\* C9 as claimed: the absolute size is monotonically non-decreasing in the
\* balance, the other inputs fixed: no larger balance gives a smaller size.
C9_MonotoneInBalance ==
    SizedUnits => \A b2 \in balance..MaxBalance : Abs(ret.units) <= SizeAt(b2)

\* C9 as amended: the absolute size is non-decreasing in the balance up to the
\* available-margin size of the larger balance, which shrinks as the balance
\* grows: for b1 <= b2, min(size(b1), availSize(b2)) <= size(b2).
C9_MonotoneUpToMargin ==
    SizedUnits
        => \A b2 \in balance..MaxBalance :
              /\ Min(Abs(ret.units), AvailAt(b2)) <= SizeAt(b2)
              /\ AvailAt(b2) <= StateAvail

\* C9's case: a larger balance whose reserve shrinks the size.
C9_Witness ==
    /\ SizedUnits
    /\ \E b2 \in balance..MaxBalance : SizeAt(b2) < Abs(ret.units)
    /\ \E b2 \in balance..MaxBalance : SizeAt(b2) > Abs(ret.units)

----------------------------------------------------------------------------
\* The claims about the control loop (Spec).

\* C6: a failure while one instrument is processed does not abort the control
\* loop: after a broker call of the snapshot refresh has failed, no exception
\* has left invoke and the loop goes on to the instrument's decision.
C6_FailureContained ==
    (ret.op = "refresh_oanda_dicts" /\ ret.arg # "none")
        => (exc = "none" /\ pc # "crashed")

----------------------------------------------------------------------------
\* The claims about the price cache (SpecCache).

\* C11: after any sequence of update_caches calls the cache of every
\* instrument holds at most cache_length rows, and they are the most recent
\* min(cache_length, rows fed) rows the instrument was fed, in the order they
\* were fed (time ascending).
C11_CacheIsRecentTail ==
    \A i \in Instruments :
        LET df_c == cache_dfs[i]
            kept == Min(Len(Fed[i]), cf.cache_length)
        IN  /\ Len(df_c) <= cf.cache_length
            /\ Len(df_c) = kept
            /\ \A k \in 1..kept : df_c[k] = Fed[i][Len(Fed[i]) - kept + k]
            /\ \A k \in 1..(Len(df_c) - 1) : df_c[k].time < df_c[k + 1].time

\* A call of two rows made the cache overflow and evict.
C11_Witness ==
    /\ ret.op = "update_caches"
    /\ Len(ret.df_rate) = 2
    /\ Len(Fed[ret.instrument]) > cf.cache_length
    /\ Len(cache_dfs[ret.instrument]) = cf.cache_length
    /\ cf.cache_length >= 2

\* C12: when every window of an instrument is incomplete (no full window is
\* handed to detect_signal), the signal is none, the action is Hold, and
\* determine_sig_state returns without an exception.
C12_IncompleteWindowsHold ==
    (ret.op = "determine_sig_state" /\ "history" \in DOMAIN ret /\ ret.history.keys = {})
        => (ret.exc = "none" /\ ret.arg = "None" /\ ret.val.act = "None")

----------------------------------------------------------------------------
\* The claims about the health predicates (SpecDecide).

\* The latest spread ratio (ask - bid) / ((ask + bid) / 2) is at least the
\* configured maximum (in per mille).
SpreadAtLeastMax(r) == (r.ask - r.bid) * 2 * 1000 >= cf.max_spread * (r.ask + r.bid)

C14_MarginLackExact ==
    ret.op = "_is_margin_lack"
        => (ret.val <=> margin_avail * 100 <= balance * cf.margin_nav_ratio.preserve)

\* C14, as the code has it: marginLack is true exactly when the instrument
\* has no open position and available margin <= balance x reserve ratio.
C14_MarginLackWhenFlat ==
    ret.op = "_is_margin_lack"
        => (ret.val <=> (/\ ~Has(pos_dict, ret.instrument)
                         /\ margin_avail * 100 <= balance * cf.margin_nav_ratio.preserve))

\* The scenario of the claim at scale (available margin 0.8 of the balance,
\* reserve ratio 0.9) on a flat instrument: marginLack is true.
C14_Witness ==
    /\ ret.op = "_is_margin_lack"
    /\ balance > 0
    /\ margin_avail * 10 = balance * 8
    /\ cf.margin_nav_ratio.preserve = 90
    /\ ~Has(pos_dict, ret.instrument)
    /\ ret.val

----------------------------------------------------------------------------
\* The claims about the expiry sweep (SpecExpire).

----------------------------------------------------------------------------
\* The claims about dry-run mode (SpecDecide) and the loop's health check (Spec).

\* C17: in dry-run mode a close or open decision sends no close-position and
\* no create-order request: the call only records the would-be request and
\* returns, and the broker's positions stay as they are.
C17_DryRunRecordsOnly ==
    (cf.dry_run /\ ret.op \in {"_place_order", "design_and_place_order"}
        /\ (ret.op = "design_and_place_order" => ret.arg # "None"))
        => /\ sent = <<>>
           /\ broker.pos = IdleBroker.pos
           /\ ret.exc = "none"

\* One step of the loop under the health check: the step that leaves the
\* health check starts a cycle exactly when it passed and stops the loop
\* otherwise, a cycle starts at no other step, the last instrument's decision
\* leads back to the health check, and a stopped loop does nothing more.
C18_Step ==
    /\ (pc = "health" /\ pc' # "health")
          => /\ ret'.op = "check_health"
             /\ pc' = IF ret'.val THEN "expire" ELSE "stopped"
    /\ (pc' = "expire" /\ pc # "expire") => (pc = "health" /\ ret'.val)
    /\ (pc = "decide" /\ pc' # "decide")
          => pc' = IF idx = Len(instruments) THEN "health" ELSE "refresh"
    /\ pc = "stopped"
          => /\ pc' = "stopped"
             /\ UNCHANGED <<snapshot, cache_dfs, idx, sent, order_log, exc, ret>>

\* C18: the loop evaluates the health check before every cycle, starts a
\* cycle exactly when it passes, and the first time it fails stops
\* without any further expiry sweep, refresh, decision or order request.
C18_HealthGatesCycles == [][C18_Step]_vars

\* The health check has failed after a whole cycle, the loop has stopped, and the
\* account has moved since.
C18_Witness ==
    /\ pc = "stopped"
    /\ ret.op = "check_health"
    /\ ~ret.val
    /\ \A i \in Instruments : cache_dfs[i] # <<>>
    /\ AccountPosDict(broker) # pos_dict

----------------------------------------------------------------------------
\* The claims about the close command (SpecClose).

\* The number of requests of reqs that close instrument i.
CloseCount(reqs, i) ==
    Cardinality({k \in 1..Len(reqs) :
                    reqs[k].func = "close_position" /\ reqs[k].instrument = i})

----------------------------------------------------------------------------
\* The claims about the order of a cycle (Spec).

C22_AtDecision ==
    pc = "decide"
        => /\ ret.op = "refresh_oanda_dicts"
           /\ ret.exc = "none"
           /\ ret.instrument = instruments[idx]
           /\ balance = broker.balance
           /\ margin_avail = broker.margin
           /\ pos_dict = AccountPosDict(broker)
           /\ last_txn_id = _refresh_txn_list(broker, <<>>, 0, FALSE).last_txn_id
           /\ DOMAIN inst_dict = Instruments
           /\ DOMAIN rate_dict = Instruments
           /\ DOMAIN unit_costs = Instruments

\* One step of a cycle: the sweep comes first, right after the health check
\* and before any refresh of the cycle; the instruments follow one at a time
\* in configured order, each refreshed and then decided on.
C22_Step ==
    /\ (pc = "expire" /\ pc' # "expire")
          => /\ ret.op = "check_health"
             /\ pc' \in {"refresh", "crashed"}
             /\ idx' = 1
    /\ (pc = "refresh" /\ pc' # "refresh")
          => /\ ret'.op = "refresh_oanda_dicts"
             /\ ret'.instrument = instruments[idx]
             /\ pc' = IF ret'.exc = "none" THEN "decide" ELSE "crashed"
             /\ idx' = idx
    /\ (pc = "decide" /\ pc' # "decide")
          => /\ ret'.op = "make_decision"
             /\ ret'.instrument = instruments[idx]
             /\ IF idx < Len(instruments)
                THEN pc' = "refresh" /\ idx' = idx + 1
                ELSE pc' = "health" /\ idx' = 1

----------------------------------------------------------------------------
\* The claims about the open timestamps (SpecAccount).

\* C23: after every account refresh the open-timestamp map has an entry for
\* exactly the instruments that hold an open position, stamped with the
\* refresh time where the position is new or its units differ from the
\* previous refresh.
C23_TimestampsFollowPositions ==
    (ret.op = "_refresh_account_dicts" /\ ret.arg = "none")
        => /\ ret.exc = "none"
           /\ DOMAIN ptime_dict = DOMAIN pos_dict
           /\ \A i \in DOMAIN pos_dict :
                 (i \notin DOMAIN ret.pos_before \/ ret.pos_before[i] # pos_dict[i])
                    => (i \in DOMAIN ptime_dict /\ ptime_dict[i].time = ret.time)

\* C30: when an instrument's position has the same units in two consecutive
\* account refreshes, its open timestamp is there after the second and is
\* the one the first left.
C30_TimestampKept ==
    (ret.op = "_refresh_account_dicts" /\ ret.arg = "none")
        => \A i \in DOMAIN pos_dict \cap DOMAIN ret.pos_before :
              pos_dict[i] = ret.pos_before[i]
                 => /\ i \in DOMAIN ptime_dict
                    /\ i \in DOMAIN ret.ptime_before
                    /\ ptime_dict[i] = ret.ptime_before[i]

----------------------------------------------------------------------------
\* The claims about the transaction list (SpecTxn).

\* C29: the transaction list is append-only: after any sequence of refreshes
\* it is the concatenation, in fetch order, of every fetched batch, its
\* earlier content a prefix; the first fetch asks for the full list, every
\* later one for the transactions since the last id the previous fetch
\* returned.
C29_TxnListAppendOnly ==
    ret.op = "_refresh_txn_list"
        => /\ txn_list = ret.fetched
           /\ Len(ret.txn_before) <= Len(txn_list)
           /\ SubSeq(txn_list, 1, Len(ret.txn_before)) = ret.txn_before
           /\ ret.request = IF ret.returned_before = 0
                             THEN [func |-> "transaction.list", id |-> 0]
                             ELSE [func |-> "transaction.since", id |-> ret.returned_before]

\* A later fetch has appended a batch to what an earlier fetch left.
C29_Witness ==
    /\ ret.op = "_refresh_txn_list"
    /\ ret.request.func = "transaction.since"
    /\ ret.txn_before # <<>>
    /\ Len(txn_list) > Len(ret.txn_before)

----------------------------------------------------------------------------
\* The band of the call detect_signal returned from: estimate - k * std and
\* estimate + k * std, defined when the deviation is.
BandLower == ret.mean - ret.sigma_band * ret.std

BandUpper == ret.mean + ret.sigma_band * ret.std

DetectSignalReturned == ret.op = "detect_signal" /\ ret.exc = "none"

\* C24: detect_signal returns long exactly when the band estimate +- k * std
\* lies entirely above zero, short exactly when it lies entirely below zero,
\* and no direction whenever the band holds zero, even if the estimate is
\* not zero: the direction is the sign of the band.
C24_DirectionIsSignOfBand ==
    DetectSignalReturned
        => /\ ret.sig_act = "long" <=> (~ret.std_nan /\ BandLower > 0)
           /\ ret.sig_act = "short" <=> (~ret.std_nan /\ BandUpper < 0)
           /\ (~ret.std_nan /\ BandLower <= 0 /\ 0 <= BandUpper) => ret.sig_act = "None"
           /\ ret.sig_act \in {"long", "short", "None"}

\* detect_signal held although the estimate was not zero: the band held zero.
C24_Witness ==
    /\ DetectSignalReturned
    /\ ret.mean # 0
    /\ ~ret.std_nan
    /\ BandLower <= 0 /\ 0 <= BandUpper
    /\ ret.sig_act = "None"

\* The position opposes the band, which does not hold zero.
PositionOpposesBand ==
    /\ DetectSignalReturned
    /\ ~ret.std_nan
    /\ \/ BandLower > 0 /\ ret.pos.side = "short"
       \/ BandUpper < 0 /\ ret.pos.side = "long"

\* C25: when the band does not hold zero and the position's side is opposite
\* to the band's direction, detect_signal returns closing; when neither a
\* direction nor closing applies, it returns none.  (No key of the
\* configuration is read for it: every configuration is checked.)
C25_ClosingWhenOpposed ==
    /\ PositionOpposesBand => ret.sig_act = "closing"
    /\ (DetectSignalReturned /\ ~PositionOpposesBand
            /\ (ret.std_nan \/ (BandLower <= 0 /\ 0 <= BandUpper)))
          => ret.sig_act = "None"

----------------------------------------------------------------------------
\* The distance the configuration asks for in the call of
\* _design_order_limits that returned: ratio * r / 10 ** pipLocation, whole.
ConfiguredDistance ==
    (ret.ts_ratio * (IF ret.arg = "long" THEN ret.rate.ask ELSE ret.rate.bid)
        * Pow10(-ret.ie.pipLocation)) \div 100

AttachedDistance == ret.limits.trailingStopLossOnFill.distance

\* C27: for every rate, configured trailing-stop ratio and instrument with
\* minTrailingStop <= maxTrailingStop, the trailing-stop distance of an open
\* order lies in [minTrailingStop, maxTrailingStop], and equals the
\* configured distance when that distance is inside the interval already.
C27_TrailingStopClamped ==
    /\ (ret.op = "_design_order_limits"
          /\ ret.ie.minimumTrailingStopDistance <= ret.ie.maximumTrailingStopDistance)
        => /\ ret.ie.minimumTrailingStopDistance <= AttachedDistance
           /\ AttachedDistance <= ret.ie.maximumTrailingStopDistance
           /\ (ret.ie.minimumTrailingStopDistance <= ConfiguredDistance
                 /\ ConfiguredDistance <= ret.ie.maximumTrailingStopDistance)
                => AttachedDistance = ConfiguredDistance
    /\ (ret.op = "trailing_stop" /\ ret.minTrailingStop <= ret.maxTrailingStop)
        => /\ ret.minTrailingStop <= ret.trailingStop
           /\ ret.trailingStop <= ret.maxTrailingStop
           /\ (ret.minTrailingStop <= ret.pips /\ ret.pips <= ret.maxTrailingStop)
                => ret.trailingStop = ret.pips

\* A configured distance above the instrument's maximum was cut to it.
C27_Witness ==
    /\ ret.op = "_design_order_limits"
    /\ ret.ie.minimumTrailingStopDistance < ret.ie.maximumTrailingStopDistance
    /\ ConfiguredDistance > ret.ie.maximumTrailingStopDistance
    /\ AttachedDistance = ret.ie.maximumTrailingStopDistance

----------------------------------------------------------------------------
\* The unit value was asked for an instrument whose base and quote are not
\* the account currency, and no instrument of the account pairs the quote
\* with the account currency.
NoConversionPath ==
    /\ ret.op \in {"_calculate_bp_value", "_calc_units"}
    /\ "cur_pair" \in DOMAIN ret
    /\ ret.cur_pair[1] # ret.currency
    /\ ret.cur_pair[2] # ret.currency
    /\ <<ret.cur_pair[2], ret.currency>> \notin ret.tradable
    /\ <<ret.currency, ret.cur_pair[2]>> \notin ret.tradable

\* C28: without a conversion path, computing the unit value fails with a
\* dedicated no-conversion-path error (a fatal configuration error raised
\* before the control loop starts, never in the middle of a cycle).
C28_NoConversionPathError ==
    NoConversionPath => ret.exc = "NoConversionPathError"

----------------------------------------------------------------------------
\* The number of requests func of reqs for instrument i.
RequestCount(reqs, func, i) ==
    Cardinality({k \in 1..Len(reqs) : reqs[k].func = func /\ reqs[k].instrument = i})

\* C26: for each instrument in each cycle there is exactly one action, and
\* at most one close request and at most one open request are sent for it: a
\* cycle that has started is not left before every instrument has had its
\* decision, and a decision sends at most one request of each kind.
C26_OneActionPerInstrument ==
    /\ pc # "crashed"
    /\ ret.op = "make_decision"
        => /\ RequestCount(ret.reqs, "position.close", ret.instrument) <= 1
           /\ RequestCount(ret.reqs, "order.create", ret.instrument) <= 1
           /\ \A k \in 1..Len(ret.reqs) : ret.reqs[k].instrument = ret.instrument

----------------------------------------------------------------------------
\* The claims about the loop in time (SpecLive).

\* A close request for instrument i has been sent.
CloseSent(i) ==
    \E k \in 1..Len(sent) : sent[k].func = "position.close" /\ sent[k].instrument = i

\* C31: if the health check keeps passing and a position stays open with
\* unchanged units, a forced close request for its instrument is eventually
\* sent: the position is in the account from the start and nothing but the
\* trader moves the account, so that its age exceeds the TTL once the clock
\* has run.
C31_ExpiredEventuallyClosed ==
    \A i \in Instruments :
       (broker.pos[i] # [long |-> 0, short |-> 0] /\ [](pc # "stopped")) => <>CloseSent(i)

----------------------------------------------------------------------------
\* The call of design_and_place_order returned and nothing was sent, logged
\* or changed at the broker.
NothingSent ==
    /\ ret.exc = "none"
    /\ ret.reqs = <<>>
    /\ sent = <<>>
    /\ order_log = <<>>
    /\ broker = IdleBroker

\* C32: a Hold decision (no action) sends no broker order request and leaves
\* the positions unchanged, and a Close decision sends a close request only
\* when the snapshot holds a position for the instrument: a closing signal on
\* a Flat instrument sends nothing.
C32_HoldAndFlatCloseSendNothing ==
    ret.op = "design_and_place_order"
        => /\ ret.arg = "None" => NothingSent
           /\ (ret.arg = "closing" /\ ~Has(pos_dict, ret.instrument)) => NothingSent
           /\ \A k \in 1..Len(ret.reqs) :
                 ret.reqs[k].func = "position.close" => Has(pos_dict, ret.instrument)

\* A closing signal came for a Flat instrument while another is held, and
\* nothing was sent.
C32_Witness ==
    /\ ret.op = "design_and_place_order"
    /\ ret.arg = "closing"
    /\ ~Has(pos_dict, ret.instrument)
    /\ pos_dict # EmptyDict
    /\ NothingSent

----------------------------------------------------------------------------
====
